---- MODULE Spec2Model ----
(***************************************************************************)
(* A model of freestor.py: the metadata synthesizer (make_ia_metadata),    *)
(* the metadata reconciler (modify_ia_metadata) and the concurrent upload  *)
(* driver (__main__, upload_article, upload_status).                       *)
(*                                                                         *)
(* Python values.  An optional value (None or a value) is a sequence of    *)
(* length 0 or 1: None == <<>>, a value v is <<v>>.  A missing dict key    *)
(* and a key read with .get() that yields None are the same <<>>.          *)
(* Strings the code takes apart (split, strip, in, int) are sequences of   *)
(* one-character strings; strings it only passes on or formats are TLA+    *)
(* strings.  Str turns the former into the latter.                         *)
(***************************************************************************)
EXTENDS Integers, Sequences, FiniteSets, TLC

\* ------------------------------------------------------------------ bounds
\* Longest page range drawn for make_ia_metadata.
MaxLen == 3
\* Articles the directory walk of the driver specification yields.
NArticles == 3
\* KeyboardInterrupts delivered to the driver in one run.
MaxInterrupts == 1
\* Articles submitted in the pool specification beyond the worker count.
PoolExtra == 1
\* Longest list value of a remote or overlay metadata key.
MaxListLen == 2

\* -------------------------------------------------------- python helpers
None == <<>>
Some(v) == <<v>>
IsNone(o) == Len(o) = 0
\* Python truthiness of an optional string or list: None, '' and [] are falsy.
Truthy(o) == Len(o) > 0 /\ Len(o[1]) > 0

RECURSIVE Str(_)
Str(cs) == IF Len(cs) = 0 THEN "" ELSE Head(cs) \o Str(Tail(cs))

\* '{0}'.format(x) of an optional TLA+ string: None formats as 'None'.
Fmt(o) == IF IsNone(o) THEN "None" ELSE o[1]
\* the same for an optional sequence of characters
FmtChars(o) == IF IsNone(o) THEN "None" ELSE Str(o[1])

RECURSIVE LStrip(_, _)
LStrip(s, chars) ==
    IF Len(s) > 0 /\ Head(s) \in chars THEN LStrip(Tail(s), chars) ELSE s
RECURSIVE RStrip(_, _)
RStrip(s, chars) ==
    IF Len(s) > 0 /\ s[Len(s)] \in chars
    THEN RStrip(SubSeq(s, 1, Len(s) - 1), chars)
    ELSE s
\* s.strip(chars)
Strip(s, chars) == RStrip(LStrip(s, chars), chars)

Whitespace == {" "}

\* s.split(sep): the pieces between the separators, at least one piece.
RECURSIVE Split(_, _)
Split(s, sep) ==
    IF \E k \in 1..Len(s) : s[k] = sep
    THEN LET k == CHOOSE k \in 1..Len(s) :
                      s[k] = sep /\ \A j \in 1..(k - 1) : s[j] # sep
         IN  <<SubSeq(s, 1, k - 1)>> \o Split(SubSeq(s, k + 1, Len(s)), sep)
    ELSE <<s>>

\* l[::-1]
Reversed(l) == [k \in 1..Len(l) |-> l[Len(l) + 1 - k]]

Digits == <<"0", "1", "2", "3", "4", "5", "6", "7", "8", "9">>
DigitValue(c) == (CHOOSE d \in 1..10 : Digits[d] = c) - 1
IsDigit(c) == \E d \in 1..10 : Digits[d] = c

RECURSIVE DigitsValue(_)
DigitsValue(cs) ==
    IF Len(cs) = 0 THEN 0
    ELSE 10 * DigitsValue(SubSeq(cs, 1, Len(cs) - 1)) + DigitValue(cs[Len(cs)])

\* int(s): surrounding whitespace is ignored; anything but a non-empty run of
\* digits raises ValueError.  (The pieces of a split on '-' hold no sign.)
IntParses(cs) ==
    LET t == Strip(cs, Whitespace)
    IN  Len(t) > 0 /\ \A k \in 1..Len(t) : IsDigit(t[k])
IntValue(cs) == DigitsValue(Strip(cs, Whitespace))

RECURSIVE NatStr(_)
NatStr(n) ==
    IF n < 10 THEN Digits[n + 1]
    ELSE NatStr(n \div 10) \o Digits[(n % 10) + 1]
\* str(n) of an int
IntStr(n) == IF n < 0 THEN "-" \o NatStr(0 - n) ELSE NatStr(n)

\* What a call produced: a raised exception (its type) or a returned value.
Raise(type) == [raised |-> type, value |-> <<>>]
Return(v) == [raised |-> "", value |-> v]
Raised(r) == r.raised # ""


\* ------------------------------------------------------ make_ia_metadata
\* xml_md is the dictionary parse_article_xml returns, as a record of
\* optional values: None where the document has no such element.
\*   id, pagerange: sequences of characters;
\*   authors: a list of single-key dictionaries [k |-> subfield, v |-> chars];
\*   languages: a list of sequences of characters;
\*   every other field: a TLA+ string.

Last(l) == l[Len(l)]

\* lines 70-90: the initial dictionary.  identifier is formatted first and
\* needs id (None has no split); the collection list needs journalabbrv.
InitialMd(xml_md) ==
    IF IsNone(xml_md.id) THEN Raise("AttributeError")
    ELSE IF IsNone(xml_md.journalabbrv) THEN Raise("KeyError")
    ELSE Return(
        [identifier |-> Some("jstor-" \o Str(Last(Split(xml_md.id[1], "/")))),
         mediatype |-> Some("texts"),
         publisher |-> xml_md.journaltitle,
         contributor |-> Some("JSTOR"),
         collection |-> Some(<<"jstor_" \o xml_md.journalabbrv[1],
                               "jstor_ejc", "additional_collections">>),
         date |-> xml_md.pubdate,
         volume |-> xml_md.volume,
         pagerange |-> xml_md.pagerange,
         issn |-> xml_md.issn,
         source |-> Some("http://www.jstor.org/stable/" \o Str(xml_md.id[1])),
         article_type |-> xml_md.type,
         journaltitle |-> xml_md.journaltitle,
         journalabbrv |-> xml_md.journalabbrv])

\* lines 93-103: the title, synthesized when the record has none.
\* '-' not in None raises TypeError.
TitleRule(xml_md, md) ==
    IF IsNone(xml_md.title)
    THEN IF IsNone(md.pagerange) THEN Raise("TypeError")
         ELSE IF ~(\E k \in 1..Len(md.pagerange[1]) : md.pagerange[1][k] = "-")
         THEN Return("[untitled] " \o Fmt(md.journaltitle) \o " ("
                     \o Fmt(md.date) \o "), page " \o FmtChars(md.pagerange))
         ELSE Return("[untitled] " \o Fmt(md.journaltitle) \o ", ("
                     \o Fmt(md.date) \o "), pages " \o FmtChars(md.pagerange))
    ELSE Return(xml_md.title[1])

\* line 108: dict((k, v) ...) over every author's items: for a subfield that
\* occurs more than once the last occurrence stays.
AuthMdGet(authors, key) ==
    LET at == {k \in 1..Len(authors) : authors[k].k = key}
    IN  IF at = {} THEN None
        ELSE Some(authors[CHOOSE k \in at : \A j \in at : j <= k].v)

NameStrip == {" ", ","}

\* lines 106-120: the creator.
CreatorRule(xml_md) ==
    IF Truthy(xml_md.authors)
    THEN LET givennames == AuthMdGet(xml_md.authors[1], "givennames")
             surname == AuthMdGet(xml_md.authors[1], "surname")
             stringname == AuthMdGet(xml_md.authors[1], "stringname")
         IN  IF ~IsNone(givennames)
             THEN IF IsNone(surname) THEN Raise("KeyError")
                  ELSE Return(Some(Str(Strip(surname[1], NameStrip)) \o ", "
                                   \o Str(Strip(givennames[1], NameStrip))))
             ELSE IF Truthy(stringname)
             THEN Return(Some(Str(Strip(stringname[1], NameStrip))))
             ELSE IF Truthy(surname)
             THEN Return(Some(Str(Strip(surname[1], NameStrip))))
             ELSE Raise("NameError")
    ELSE Return(None)

\* lines 123-125: the language, set only for a non-empty list.
LanguageRule(xml_md) ==
    IF Truthy(xml_md.languages)
    THEN Some(Str(Strip(xml_md.languages[1][1], Whitespace)))
    ELSE None

\* lines 128-139: one urn per id field that is truthy.
ExternalIds(xml_md) ==
    <<[k |-> "headid", v |-> xml_md.headid],
      [k |-> "journalid", v |-> xml_md.journalid],
      [k |-> "issueid", v |-> xml_md.issueid],
      [k |-> "articleid",
       v |-> IF IsNone(xml_md.id) THEN None ELSE Some(Str(xml_md.id[1]))]>>

RECURSIVE ExternalIdentifierFrom(_, _)
ExternalIdentifierFrom(ids, k) ==
    IF k > Len(ids) THEN <<>>
    ELSE (IF Truthy(ids[k].v)
          THEN <<"urn:jstor-" \o ids[k].k \o ":" \o ids[k].v[1]>>
          ELSE <<>>) \o ExternalIdentifierFrom(ids, k + 1)

ExternalIdentifierRule(xml_md) == ExternalIdentifierFrom(ExternalIds(xml_md), 1)

\* A variant of ImagecountTry that leaves out the two pages added at
\* line 149.
ImagecountTryNoCover(pagerange) ==
    LET pages == Reversed(Split(pagerange, "-"))
    IN  IF Len(pages) = 1 THEN Return("2")
        ELSE IF ~IntParses(pages[1]) \/ ~IntParses(pages[2])
        THEN Raise("ValueError")
        ELSE Return(IntStr(IntValue(pages[1]) - IntValue(pages[2])))

\* lines 144-150: the body of the try.
ImagecountTry(pagerange) ==
    LET pages == Reversed(Split(pagerange, "-"))
    IN  IF Len(pages) = 1 THEN Return("2")
        ELSE IF ~IntParses(pages[1]) \/ ~IntParses(pages[2])
        THEN Raise("ValueError")
        ELSE Return(IntStr((IntValue(pages[1]) - IntValue(pages[2])) + 2))

\* lines 142-152: imagecount is set only for a truthy page range; a
\* ValueError of the try sets it to None.
ImagecountRule(xml_md) ==
    IF Truthy(xml_md.pagerange)
    THEN LET r == ImagecountTry(xml_md.pagerange[1])
         IN  IF r.raised = "ValueError" THEN Return(None)
             ELSE IF Raised(r) THEN r
             ELSE Return(Some(r.value))
    ELSE Return(None)

\* lines 155-157: the description rendered from description.html, a file
\* that is not part of the source at hand: an opaque non-empty text.
RenderDescription(md) == "<description of " \o md.identifier[1] \o ">"

\* line 160: only the items with a truthy value stay.
Prune(md) == [k \in DOMAIN md |-> IF Truthy(md[k]) THEN md[k] ELSE None]

\* lines 154-160: the description, then the pruning.
Described(md) == Prune(md @@ [description |-> Some(RenderDescription(md))])

\* lines 122-152, once the title and the creator are there.
WithImagecount(xml_md, md, imagecount) ==
    IF Raised(imagecount) THEN imagecount
    ELSE Return(Described(
             md @@ [language |-> LanguageRule(xml_md),
                    imagecount |-> imagecount.value]
                @@ ("external-identifier"
                        :> Some(ExternalIdentifierRule(xml_md)))))

\* lines 105-120, once the title is there.
WithCreator(xml_md, md, creator) ==
    IF Raised(creator) THEN creator
    ELSE WithImagecount(xml_md, md @@ [creator |-> creator.value],
                        ImagecountRule(xml_md))

\* lines 92-103, on the initial dictionary.
WithTitle(xml_md, md, title) ==
    IF Raised(title) THEN title
    ELSE WithCreator(xml_md, md @@ [title |-> Some(title.value)],
                     CreatorRule(xml_md))

WithInitialMd(xml_md, md0) ==
    IF Raised(md0) THEN md0
    ELSE WithTitle(xml_md, md0.value, TitleRule(xml_md, md0.value))

\* lines 64-160.  The rules run in the order of the source and the first
\* exception ends the call.  The value returned is a dictionary as a
\* function from key to optional value, None for a key the dictionary does
\* not have.
make_ia_metadata(file_md, xml_md) == WithInitialMd(xml_md, InitialMd(xml_md))


\* ------------------------------------------------------------- variables
VARIABLES
    \* make_ia_metadata: its argument and what the call produced
    xml_in, md_out,
    \* modify_ia_metadata: the remote metadata, the overlay, the requests
    \* sent so far and what the call produced
    remote, overlay, requests, modified,
    \* the driver: the articles pdf_iterator yields, how many it has yielded,
    \* the driver's position, the KeyboardInterrupts delivered so far
    pdfs, i, pc, interrupts,
    \* the executor: its work queue, its thread count, and per article the
    \* future of its unit of work
    work_queue, threads, future,
    \* the effects: per article its 'No XML file' and 'Uploaded' lines and
    \* its item.upload calls
    no_xml_lines, uploaded_lines, uploads

meta_vars == <<xml_in, md_out>>
patch_vars == <<remote, overlay, requests, modified>>
driver_vars == <<pdfs, i, pc, interrupts, work_queue, threads, future,
                 no_xml_lines, uploaded_lines, uploads>>
vars == <<meta_vars, patch_vars, driver_vars>>

NotCalled == Raise("<not called>")
Called(r) == r.raised # "<not called>"
Returned(r) == r.raised = ""

\* --------------------------------------- inputs drawn for make_ia_metadata
PageChars == {"5", "9", "-", "f"}
PageRanges == UNION {[1..n -> PageChars] : n \in 0..MaxLen}

Entry(key, o) == IF IsNone(o) THEN <<>> ELSE <<[k |-> key, v |-> o[1]]>>
AuthorsOf(s, g, n) ==
    Entry("surname", s) \o Entry("givennames", g) \o Entry("stringname", n)

Surnames == {None, Some(<<>>), Some(<<" ", "D", "o", "e", ",">>)}
Givennames == {None, Some(<<>>), Some(<<"J", ".", " ">>)}
Stringnames == {None, Some(<<>>), Some(<<",", "J", " ", "D", "o", "e">>)}

\* one author with any combination of the three subfields, one with none of
\* them but another subfield, and two lists of two authors
AuthorLists ==
    {AuthorsOf(s, g, n) : s \in Surnames, g \in Givennames, n \in Stringnames}
    \cup {<<[k |-> "suffix", v |-> <<"J", "r">>]>>,
          AuthorsOf(Some(<<"R", "o", "e">>), Some(<<"A">>), None)
              \o AuthorsOf(Some(<<"D", "o", "e">>), None, None),
          AuthorsOf(None, None, Some(<<"A", " ", "R", "o", "e">>))
              \o AuthorsOf(Some(<<"D", "o", "e">>), Some(<<"J">>), None)}

XmlMds ==
    [id : {None, Some(<<>>), Some(<<"1", "0", "/", "7">>)},
     journalabbrv : {None, Some("acmej")},
     journaltitle : {None, Some("Acme Journal")},
     pubdate : {None, Some("1920")},
     title : {None, Some(""), Some("On Bees")},
     pagerange : {None} \cup {Some(p) : p \in PageRanges},
     authors : {None} \cup {Some(a) : a \in AuthorLists},
     languages : {Some(<<<<"e", "n", "g">>, <<"f", "r", "e">>>>)},
     volume : {Some("12")},
     issn : {Some("")},
     type : {None},
     headid : {Some("h1")},
     journalid : {None},
     issueid : {Some("")}]

\* the article dictionary of pdf_iterator that make_ia_metadata is handed
\* and never reads
NoFileMd == <<>>

InitMeta == xml_in \in XmlMds /\ md_out = NotCalled

CallMakeIaMetadata ==
    /\ ~Called(md_out)
    /\ md_out' = make_ia_metadata(NoFileMd, xml_in)
    /\ UNCHANGED <<xml_in, patch_vars, driver_vars>>


\* ---------------------------------------------------- modify_ia_metadata
\* A metadata value is a string or a list of strings, tagged so that any two
\* compare: [t |-> "str", s |-> ..., l |-> <<>>] or
\* [t |-> "list", s |-> "", l |-> <<...>>].  A metadata dictionary is a
\* function from MetaKeys to optional values, None for a key it lacks.
StrVal(x) == [t |-> "str", s |-> x, l |-> <<>>]
ListVal(xs) == [t |-> "list", s |-> "", l |-> xs]

MetaKeys == {"collection", "title"}
Scalars == {"X", "Y"}
MetaValues ==
    {StrVal(x) : x \in Scalars}
    \cup {ListVal(xs) : xs \in UNION {[1..n -> Scalars] : n \in 0..MaxListLen}}
MetaDicts == [MetaKeys -> {None} \cup {Some(v) : v \in MetaValues}]

\* the keys in the order the dictionary is walked
KeyOrder == <<"collection", "title">>

\* line 174: dict(src.items() + metadata.items()): the overlay's items come
\* last and win.
Dest(src, md) == [k \in MetaKeys |-> IF IsNone(md[k]) THEN src[k] ELSE md[k]]

\* One operation of jsonpatch: {'op', 'path', 'value'}; a remove has no value.
Op(op, path, value) == [op |-> op, path |-> path, value |-> value]

\* jsonpatch's compare_list: the common prefix element by element, then an
\* add per extra element of dst, or a remove per extra element of src, last
\* first.  List indices count from 0.
RECURSIVE CompareListFrom(_, _, _, _)
CompareListFrom(path, a, b, k) ==
    IF k > Len(a) /\ k > Len(b) THEN <<>>
    ELSE IF k <= Len(a) /\ k <= Len(b)
    THEN (IF a[k] = b[k] THEN <<>>
          ELSE <<Op("replace", path \o "/" \o IntStr(k - 1),
                    Some(StrVal(b[k])))>>)
         \o CompareListFrom(path, a, b, k + 1)
    ELSE IF k <= Len(b)
    THEN <<Op("add", path \o "/" \o IntStr(k - 1), Some(StrVal(b[k])))>>
         \o CompareListFrom(path, a, b, k + 1)
    ELSE CompareListFrom(path, a, b, k + 1)
         \o <<Op("remove", path \o "/" \o IntStr(k - 1), None)>>

\* jsonpatch's compare_values: nothing for equal values, the list
\* comparison for two lists, a replace otherwise.
CompareValues(path, value, other) ==
    IF value = other THEN <<>>
    ELSE IF value.t = "list" /\ other.t = "list"
    THEN CompareListFrom(path, value.l, other.l, 1)
    ELSE <<Op("replace", path, Some(other))>>

\* jsonpatch's compare_dict: for every key of src a remove or the comparison
\* of the two values, then an add for every key only dst has.
RECURSIVE CompareSrcKeys(_, _, _)
CompareSrcKeys(src, dst, k) ==
    IF k > Len(KeyOrder) THEN <<>>
    ELSE LET key == KeyOrder[k]
         IN  (IF IsNone(src[key]) THEN <<>>
              ELSE IF IsNone(dst[key]) THEN <<Op("remove", "/" \o key, None)>>
              ELSE CompareValues("/" \o key, src[key][1], dst[key][1]))
             \o CompareSrcKeys(src, dst, k + 1)

RECURSIVE CompareDstKeys(_, _, _)
CompareDstKeys(src, dst, k) ==
    IF k > Len(KeyOrder) THEN <<>>
    ELSE LET key == KeyOrder[k]
         IN  (IF ~IsNone(dst[key]) /\ IsNone(src[key])
              THEN <<Op("add", "/" \o key, dst[key])>>
              ELSE <<>>)
             \o CompareDstKeys(src, dst, k + 1)

\* line 175: jsonpatch.make_patch(src, dest).patch
MakePatch(src, dst) == CompareSrcKeys(src, dst, 1) \o CompareDstKeys(src, dst, 1)

\* line 176: {p['op']: p['path'], 'value': p['value']}; p['value'] of an
\* operation without a value raises KeyError.
Flatten(p) == (p.op :> Some(StrVal(p.path))) @@ ("value" :> p.value)
FlattenPatch(json_patch) ==
    IF \E k \in 1..Len(json_patch) : IsNone(json_patch[k].value)
    THEN Raise("KeyError")
    ELSE Return([k \in 1..Len(json_patch) |-> Flatten(json_patch[k])])

GetRequest == [method |-> "GET", patch |-> <<>>]
PatchRequest(patch) == [method |-> "PATCH", patch |-> patch]

NoChanges == "No changes made to metadata."
\* the body of the response to the patch request, r.content
ResponseContent == "<response content>"

InitPatch ==
    /\ remote \in MetaDicts
    /\ overlay \in MetaDicts
    /\ requests = <<>>
    /\ modified = NotCalled

\* lines 163-181.  The credentials are taken to be in the environment; the
\* read request is taken to answer with the remote metadata.
modify_ia_metadata ==
    /\ ~Called(modified)
    /\ LET src == remote
           dest == Dest(src, overlay)
           json_patch == MakePatch(src, dest)
           patch == FlattenPatch(json_patch)
       IN  IF Raised(patch)
           THEN /\ requests' = <<GetRequest>>
                /\ modified' = patch
           ELSE IF Len(patch.value) = 0
           THEN /\ requests' = <<GetRequest>>
                /\ modified' = Return(NoChanges)
           ELSE /\ requests' = <<GetRequest, PatchRequest(patch.value)>>
                /\ modified' = Return(ResponseContent)
    /\ UNCHANGED <<remote, overlay, meta_vars, driver_vars>>


\* ------------------------------------------------------------ the driver
\* line 203: futures.ThreadPoolExecutor(max_workers=15)
max_workers == 15

\* An XML file: well formed or not, and the dictionary it parses to.
GoodXmlMd ==
    [id |-> Some(<<"1", "0", "/", "7">>),
     journalabbrv |-> Some("acmej"),
     journaltitle |-> Some("Acme Journal"),
     pubdate |-> Some("1920"),
     title |-> Some("On Bees"),
     pagerange |-> Some(<<"5", "-", "9">>),
     authors |-> Some(AuthorsOf(Some(<<"D", "o", "e">>), Some(<<"J">>), None)),
     languages |-> Some(<<<<"e", "n", "g">>>>),
     volume |-> Some("12"),
     issn |-> Some(""),
     type |-> None,
     headid |-> Some("h1"),
     journalid |-> None,
     issueid |-> Some("")]
\* an authors element whose only subfield is an empty surname: NameError
NoNameXmlMd ==
    [GoodXmlMd EXCEPT !.authors = Some(AuthorsOf(Some(<<>>), None, None))]

\* An article of pdf_iterator (lines 30-39): xml is None when no XML file
\* exists at its path (the dictionary has no xml_path); upload_raises is
\* whether the archive's upload will raise for this item.
Article(xml, upload_raises) == [xml |-> xml, upload_raises |-> upload_raises]
Document(well_formed, md) == [well_formed |-> well_formed, xml_md |-> md]

NoXmlArticle == Article(None, FALSE)
MalformedArticle == Article(Some(Document(FALSE, GoodXmlMd)), FALSE)
NoNameArticle == Article(Some(Document(TRUE, NoNameXmlMd)), FALSE)
GoodArticle == Article(Some(Document(TRUE, GoodXmlMd)), FALSE)
RefusedArticle == Article(Some(Document(TRUE, GoodXmlMd)), TRUE)

\* The directories hold articles of these kinds; pdfs names each article it
\* yields by its kind.
ArticleKinds == {"no_xml", "malformed", "no_name", "good", "refused"}
ArticleOf ==
    ("no_xml" :> NoXmlArticle)
    @@ ("malformed" :> MalformedArticle)
    @@ ("no_name" :> NoNameArticle)
    @@ ("good" :> GoodArticle)
    @@ ("refused" :> RefusedArticle)
\* pdf.get('xml_path') of the a-th article
HasXml(a) == ~IsNone(ArticleOf[pdfs[a]].xml)

\* lines 42-61: a document with an element without text has no text to
\* strip (AttributeError); otherwise the dictionary.
parse_article_xml(xml_file) ==
    IF xml_file.well_formed THEN Return(xml_file.xml_md)
    ELSE Raise("AttributeError")

\* A variant of upload_article that goes on to item.upload when the
\* synthesis has raised.
upload_article_unconfined(article) ==
    LET parsed == parse_article_xml(article.xml[1]) IN
    IF Raised(parsed) THEN [outcome |-> parsed, uploads |-> 1]
    ELSE [outcome |-> Return(Some("jstor-7")), uploads |-> 1]

\* lines 184-192: what the call produced, and the item.upload calls it made.
upload_article(article) ==
    LET parsed == parse_article_xml(article.xml[1]) IN
    IF Raised(parsed) THEN [outcome |-> parsed, uploads |-> 0] ELSE
    LET md == make_ia_metadata(article, parsed.value) IN
    IF Raised(md) THEN [outcome |-> md, uploads |-> 0] ELSE
    IF article.upload_raises
    THEN [outcome |-> Raise("HTTPError"), uploads |-> 1]
    ELSE [outcome |-> Return(md.value.identifier), uploads |-> 1]

\* upload_article of each kind of article with an XML file
UploadOfMalformed == upload_article(MalformedArticle)
UploadOfNoName == upload_article(NoNameArticle)
UploadOfGood == upload_article(GoodArticle)
UploadOfRefused == upload_article(RefusedArticle)
UploadArticleOf(kind) ==
    CASE kind = "malformed" -> UploadOfMalformed
      [] kind = "no_name" -> UploadOfNoName
      [] kind = "good" -> UploadOfGood
      [] kind = "refused" -> UploadOfRefused

\* lines 194-196: future.result() raises what the unit raised, and then
\* nothing is printed; otherwise one 'Uploaded' line.  The lines printed.
upload_status(f) == IF Raised(f.outcome) THEN 0 ELSE 1

\* callbacks: the callbacks added that are still to be called
NoFuture == [state |-> "NONE", outcome |-> NotCalled, callbacks |-> 0]

Running == {a \in DOMAIN future : future[a].state = "RUNNING"}
Unfinished == {a \in DOMAIN future : future[a].state \in {"PENDING", "RUNNING"}}

InitDriverWith(articles) ==
    /\ pdfs = articles
    /\ i = 0
    /\ pc = "for"
    /\ interrupts = 0
    /\ work_queue = <<>>
    /\ threads = 0
    /\ future = [a \in 1..Len(articles) |-> NoFuture]
    /\ no_xml_lines = [a \in 1..Len(articles) |-> 0]
    /\ uploaded_lines = [a \in 1..Len(articles) |-> 0]
    /\ uploads = [a \in 1..Len(articles) |-> 0]

\* line 204: the iterator yields the next article.
ForNext ==
    /\ pc = "for"
    /\ i < Len(pdfs)
    /\ i' = i + 1
    /\ pc' = "try"
    /\ UNCHANGED <<meta_vars, patch_vars>>
    /\ UNCHANGED <<pdfs, interrupts, work_queue, threads, future,
                   no_xml_lines, uploaded_lines, uploads>>

\* line 204: the iterator is exhausted; the with block is left.
ForStop ==
    /\ pc = "for"
    /\ i = Len(pdfs)
    /\ pc' = "exit"
    /\ UNCHANGED <<meta_vars, patch_vars>>
    /\ UNCHANGED <<pdfs, i, interrupts, work_queue, threads, future,
                   no_xml_lines, uploaded_lines, uploads>>

\* lines 206-208: no XML file: a line, and on to the next article.
NoXmlFile ==
    /\ pc = "try"
    /\ ~HasXml(i)
    /\ no_xml_lines' = [no_xml_lines EXCEPT ![i] = @ + 1]
    /\ pc' = "for"
    /\ UNCHANGED <<meta_vars, patch_vars>>
    /\ UNCHANGED <<pdfs, i, interrupts, work_queue, threads, future,
                   uploaded_lines, uploads>>

\* A variant of AdjustThreadCount without the limit.
AdjustThreadCountUnbounded(n) == n + 1

\* the executor starts a thread on a submit while it has fewer than
\* max_workers
AdjustThreadCount(n) == IF n < max_workers THEN n + 1 ELSE n

\* line 218: executor.submit(upload_article, article=pdf)
Submit ==
    /\ pc = "try"
    /\ HasXml(i)
    /\ future' = [future EXCEPT ![i].state = "PENDING"]
    /\ work_queue' = Append(work_queue, i)
    /\ threads' = AdjustThreadCount(threads)
    /\ pc' = "submitted"
    /\ UNCHANGED <<meta_vars, patch_vars>>
    /\ UNCHANGED <<pdfs, i, interrupts, no_xml_lines, uploaded_lines, uploads>>

\* line 219: future.add_done_callback(upload_status): a finished future
\* calls it at once, in the driver's thread, and an exception it raises is
\* logged and ignored; otherwise it is kept for the worker to call.
AddDoneCallback ==
    /\ pc = "submitted"
    /\ IF future[i].state = "FINISHED"
       THEN /\ uploaded_lines' =
                   [uploaded_lines EXCEPT ![i] = @ + upload_status(future[i])]
            /\ UNCHANGED future
       ELSE /\ future' = [future EXCEPT ![i].callbacks = @ + 1]
            /\ UNCHANGED uploaded_lines
    /\ pc' = "for"
    /\ UNCHANGED <<meta_vars, patch_vars>>
    /\ UNCHANGED <<pdfs, i, interrupts, work_queue, threads,
                   no_xml_lines, uploads>>

\* lines 205-229: a KeyboardInterrupt inside the try, before the submit or
\* between the submit and add_done_callback, is caught and passed over:
\* the loop goes on with the next article.
InterruptInTry ==
    /\ pc \in {"try", "submitted"}
    /\ interrupts < MaxInterrupts
    /\ interrupts' = interrupts + 1
    /\ pc' = "for"
    /\ UNCHANGED <<meta_vars, patch_vars>>
    /\ UNCHANGED <<pdfs, i, work_queue, threads, future, no_xml_lines,
                   uploaded_lines, uploads>>

\* line 204: a KeyboardInterrupt while pdf_iterator runs is outside the try:
\* it leaves the loop and the with block.
InterruptInFor ==
    /\ pc = "for"
    /\ interrupts < MaxInterrupts
    /\ interrupts' = interrupts + 1
    /\ pc' = "exit"
    /\ UNCHANGED <<meta_vars, patch_vars>>
    /\ UNCHANGED <<pdfs, i, work_queue, threads, future, no_xml_lines,
                   uploaded_lines, uploads>>

\* a worker thread that runs no unit takes the oldest work item
WorkerGet ==
    /\ Len(work_queue) > 0
    /\ Cardinality(Running) < threads
    /\ future' = [future EXCEPT ![Head(work_queue)].state = "RUNNING"]
    /\ work_queue' = Tail(work_queue)
    /\ UNCHANGED <<meta_vars, patch_vars>>
    /\ UNCHANGED <<pdfs, i, pc, interrupts, threads, no_xml_lines,
                   uploaded_lines, uploads>>

\* the worker runs upload_article, sets the future's result or exception
\* and calls its callbacks; an exception of a callback is logged and ignored
WorkerRun(a) ==
    /\ future[a].state = "RUNNING"
    /\ LET r == UploadArticleOf(pdfs[a])
           f == [future[a] EXCEPT !.state = "FINISHED", !.outcome = r.outcome]
       IN  /\ future' = [future EXCEPT ![a] = [f EXCEPT !.callbacks = 0]]
           /\ uploads' = [uploads EXCEPT ![a] = @ + r.uploads]
           /\ uploaded_lines' =
                  [uploaded_lines EXCEPT
                       ![a] = @ + f.callbacks * upload_status(f)]
    /\ UNCHANGED <<meta_vars, patch_vars>>
    /\ UNCHANGED <<pdfs, i, pc, interrupts, work_queue, threads,
                   no_xml_lines>>

\* A variant of ExecutorExit that is shutdown(wait=False).
ExecutorExitNoWait ==
    /\ pc = "exit"
    /\ pc' = "done"
    /\ UNCHANGED <<meta_vars, patch_vars>>
    /\ UNCHANGED <<pdfs, i, interrupts, work_queue, threads, future,
                   no_xml_lines, uploaded_lines, uploads>>

\* line 203: leaving the with block is executor.shutdown(wait=True): it
\* returns when every submitted unit has run.
ExecutorExit ==
    /\ pc = "exit"
    /\ Unfinished = {}
    /\ pc' = "done"
    /\ UNCHANGED <<meta_vars, patch_vars>>
    /\ UNCHANGED <<pdfs, i, interrupts, work_queue, threads, future,
                   no_xml_lines, uploaded_lines, uploads>>


\* -------------------------------------------------------- specifications
\* The parts of the state a specification does not use keep these values.
IdleMeta == xml_in = GoodXmlMd /\ md_out = NotCalled
IdlePatch ==
    /\ remote = [k \in MetaKeys |-> None]
    /\ overlay = [k \in MetaKeys |-> None]
    /\ requests = <<>>
    /\ modified = NotCalled

\* The driver over every directory of NArticles articles.
Init ==
    /\ IdleMeta
    /\ IdlePatch
    /\ \E articles \in [1..NArticles -> ArticleKinds] : InitDriverWith(articles)

Next ==
    \/ ForNext
    \/ ForStop
    \/ NoXmlFile
    \/ Submit
    \/ AddDoneCallback
    \/ InterruptInTry
    \/ InterruptInFor
    \/ WorkerGet
    \/ \E a \in DOMAIN future : WorkerRun(a)
    \/ ExecutorExit

Spec == Init /\ [][Next]_vars

\* The driver, never interrupted, over a directory with more articles to
\* submit than the executor has workers: one without an XML file, one whose
\* synthesis fails, one whose upload fails, and max_workers + PoolExtra - 2
\* that upload.  Here the units take equally long: the unit that finishes
\* is the one that started first.
PoolPdfs ==
    <<"no_xml", "no_name", "refused">>
    \o [k \in 1..(max_workers + PoolExtra - 2) |-> "good"]

InitPool == IdleMeta /\ IdlePatch /\ InitDriverWith(PoolPdfs)

WorkerRunOldest ==
    \E a \in Running : (\A b \in Running : a <= b) /\ WorkerRun(a)

NextPool ==
    \/ ForNext
    \/ ForStop
    \/ NoXmlFile
    \/ Submit
    \/ AddDoneCallback
    \/ WorkerGet
    \/ WorkerRunOldest
    \/ ExecutorExit

SpecPool == InitPool /\ [][NextPool]_vars

\* make_ia_metadata applied to every dictionary of XmlMds.
InitMetaSpec == InitMeta /\ IdlePatch /\ InitDriverWith(<<>>)
NextMeta == CallMakeIaMetadata
SpecMeta == InitMetaSpec /\ [][NextMeta]_vars

\* modify_ia_metadata applied to every remote metadata and overlay.
InitPatchSpec == IdleMeta /\ InitPatch /\ InitDriverWith(<<>>)
NextPatch == modify_ia_metadata
SpecPatch == InitPatchSpec /\ [][NextPatch]_vars

\* ----------------------------------------------------- the driver's claims
\* Whether parsing or synthesis raises for an article of each kind.
SynthesisFailsOf ==
    [kind \in ArticleKinds \ {"no_xml"} |->
        LET xml_file == ArticleOf[kind].xml[1]
        IN  \/ Raised(parse_article_xml(xml_file))
            \/ Raised(make_ia_metadata(NoFileMd, xml_file.xml_md))]
UploadRaisesOf ==
    [kind \in ArticleKinds \ {"no_xml"} |-> ArticleOf[kind].upload_raises]

\* C1: when a run that was not interrupted is over, every article without an
\* XML file has been skipped (one 'No XML file' line, never submitted) and
\* every other article has been submitted and has had its outcome reported
\* exactly once, whether its unit of work returned or raised.
C1_EveryOutcomeReportedOnce ==
    (pc = "done" /\ interrupts = 0) =>
        \A a \in DOMAIN pdfs :
            IF ~HasXml(a)
            THEN /\ no_xml_lines[a] = 1
                 /\ future[a].state = "NONE"
                 /\ uploaded_lines[a] = 0
            ELSE /\ no_xml_lines[a] = 0
                 /\ future[a].state = "FINISHED"
                 /\ uploaded_lines[a] = 1

\* C2: a failure of one article's unit of work stays with that article.  A
\* finished unit has raised exactly when its own parsing or synthesis fails
\* or its own upload raises; item.upload is called at most once and never
\* for an article whose parsing or synthesis failed; when the driver is done
\* every submitted unit has finished; and the driver leaves the loop only
\* when the iterator is exhausted or on a KeyboardInterrupt.
C2_FailureConfined ==
    /\ \A a \in DOMAIN pdfs :
          /\ uploads[a] <= 1
          /\ uploads[a] = 1 => HasXml(a) /\ ~SynthesisFailsOf[pdfs[a]]
          /\ future[a].state = "FINISHED" =>
                /\ Raised(future[a].outcome) <=>
                       (SynthesisFailsOf[pdfs[a]] \/ UploadRaisesOf[pdfs[a]])
                /\ uploads[a] = (IF SynthesisFailsOf[pdfs[a]] THEN 0 ELSE 1)
    /\ pc = "done" => Unfinished = {}
    /\ pc \in {"exit", "done"} => (i = Len(pdfs) \/ interrupts > 0)

\* a run is over in which one unit failed in synthesis, made no upload, and
\* another unit uploaded and was reported
C2_Witness ==
    /\ pc = "done"
    /\ interrupts = 0
    /\ \E a, b \in DOMAIN pdfs :
          /\ pdfs[a] \in {"malformed", "no_name"}
          /\ future[a].state = "FINISHED"
          /\ Raised(future[a].outcome)
          /\ uploads[a] = 0
          /\ a < b
          /\ pdfs[b] = "good"
          /\ future[b].state = "FINISHED"
          /\ ~Raised(future[b].outcome)
          /\ uploads[b] = 1
          /\ uploaded_lines[b] = 1

\* C3: once a KeyboardInterrupt has arrived, no further article is submitted
\* to the pool: a future that does not exist stays that way.
C3_NoSubmitAfterInterrupt ==
    [][interrupts > 0 =>
           \A a \in DOMAIN future :
               future[a].state = "NONE" => future'[a].state = "NONE"]_vars

\* C4: never more than max_workers units run at once; a submitted unit that
\* is not running and has not finished waits in the work queue, and while
\* max_workers units run no worker takes one from it.
C4_AtMostMaxWorkersRun ==
    /\ Cardinality(Running) <= max_workers
    /\ \A a \in DOMAIN future :
          future[a].state = "PENDING" =>
              \E k \in 1..Len(work_queue) : work_queue[k] = a
    /\ Cardinality(Running) = max_workers => ~ENABLED WorkerGet

\* max_workers units run and a submitted unit waits
C4_Witness == Cardinality(Running) = max_workers /\ Len(work_queue) > 0

\* C10 as it is stated: after an interrupt the driver does not wait for the
\* units it submitted; at the end of the with block it can go on while
\* some of them are still running or not yet started.
C10_DriverDoesNotWait ==
    (pc = "exit" /\ interrupts > 0 /\ Unfinished # {}) => ENABLED ExecutorExit

\* C10, amended: after an interrupt the driver does not cancel the units it
\* submitted and it waits for them: when it has left the with block every
\* unit it submitted has finished, and a unit that is not finished was never
\* submitted.
C10_DriverWaits ==
    (pc = "done" /\ interrupts > 0) =>
        /\ Unfinished = {}
        /\ \A a \in DOMAIN future :
              future[a].state \in {"NONE", "FINISHED"}
        /\ \A a \in DOMAIN future :
              future[a].state = "NONE" =>
                  uploads[a] = 0 /\ uploaded_lines[a] = 0

\* the driver was interrupted with a unit in flight and has left the with
\* block, the unit finished
C10_Witness ==
    /\ pc = "done"
    /\ interrupts > 0
    /\ \E a \in DOMAIN future : future[a].state = "FINISHED" /\ uploads[a] = 1


\* ----------------------------------------------- make_ia_metadata's claims
\* the rules after the initial dictionary are reached
InitialMdGiven == ~IsNone(xml_in.id) /\ ~IsNone(xml_in.journalabbrv)
\* the rules after the title are reached
TitleGiven == InitialMdGiven /\ (~IsNone(xml_in.title) \/ ~IsNone(xml_in.pagerange))

RequiredKeys ==
    {"identifier", "mediatype", "title", "collection", "source", "description"}

\* C6: whenever make_ia_metadata returns, every key of the dictionary it
\* returns has a non-empty value, and identifier, mediatype, title,
\* collection, source and description are among its keys.
C6_PrunedWithRequiredKeys ==
    Returned(md_out) =>
        /\ \A k \in DOMAIN md_out.value :
              IsNone(md_out.value[k]) \/ Truthy(md_out.value[k])
        /\ \A k \in RequiredKeys : ~IsNone(md_out.value[k])

\* make_ia_metadata has returned a dictionary with this creator
CreatorIs(c) == Returned(md_out) /\ md_out.value.creator = Some(c)
Trimmed(name) == Str(Strip(name, NameStrip))

\* C7: the creator, on the records that reach the creator rule and whose
\* name subfields, where they exist, are not empty.  Without an authors
\* field there is no creator and no error; with surname and givennames it is
\* 'Surname, GivenNames'; otherwise the trimmed stringname if there is one;
\* otherwise the trimmed surname if there is one; with none of the three the
\* call raises.
C7_CreatorCascade ==
    (Called(md_out) /\ TitleGiven) =>
        IF IsNone(xml_in.authors)
        THEN Returned(md_out) /\ IsNone(md_out.value.creator)
        ELSE LET authors == xml_in.authors[1]
                 surname == AuthMdGet(authors, "surname")
                 givennames == AuthMdGet(authors, "givennames")
                 stringname == AuthMdGet(authors, "stringname")
             IN  (/\ Len(authors) > 0
                  /\ \A o \in {surname, givennames, stringname} :
                        IsNone(o) \/ Truthy(o)) =>
                 IF ~IsNone(surname) /\ ~IsNone(givennames)
                 THEN CreatorIs(Trimmed(surname[1]) \o ", "
                                \o Trimmed(givennames[1]))
                 ELSE IF ~IsNone(stringname)
                 THEN CreatorIs(Trimmed(stringname[1]))
                 ELSE IF ~IsNone(surname)
                 THEN CreatorIs(Trimmed(surname[1]))
                 ELSE IF IsNone(givennames)
                 THEN Raised(md_out)
                 ELSE TRUE

DashesAt(p) == {k \in 1..Len(p) : p[k] = "-"}
IsPageNumber(cs) ==
    /\ Len(cs) > 0
    /\ \A k \in 1..Len(cs) :
          cs[k] \in {"0", "1", "2", "3", "4", "5", "6", "7", "8", "9"}

\* C8: for a non-empty page range the call never raises ValueError, and
\* when it returns: a range without '-' has imagecount "2"; a range
\* first-last of two page numbers has the decimal string of
\* (last - first) + 2, so "5-9" has "6"; a range with one '-' whose sides are
\* not both page numbers, like "f-f", has no imagecount.
C8_Imagecount ==
    (Called(md_out) /\ Truthy(xml_in.pagerange)) =>
        /\ md_out.raised # "ValueError"
        /\ Returned(md_out) =>
              LET p == xml_in.pagerange[1]
                  imagecount == md_out.value.imagecount
              IN  /\ DashesAt(p) = {} => imagecount = Some("2")
                  /\ Cardinality(DashesAt(p)) = 1 =>
                        LET k == CHOOSE k \in DashesAt(p) : TRUE
                            first == SubSeq(p, 1, k - 1)
                            last == SubSeq(p, k + 1, Len(p))
                        IN  IF IsPageNumber(first) /\ IsPageNumber(last)
                            THEN imagecount =
                                     Some(IntStr((DigitsValue(last)
                                                  - DigitsValue(first)) + 2))
                            ELSE IsNone(imagecount)
                  /\ p = <<"5", "-", "9">> => imagecount = Some("6")
                  /\ p = <<"f", "-", "f">> => IsNone(imagecount)

\* the page range "5-9" has given the imagecount "6"
C8_Witness ==
    /\ Returned(md_out)
    /\ xml_in.pagerange = Some(<<"5", "-", "9">>)
    /\ md_out.value.imagecount = Some("6")

\* C9: for a record without a title the call does not fail on the title and
\* the dictionary it returns has a non-empty title; with a page range
\* without '-' it is '[untitled] <publisher> (<date>), page <pagerange>',
\* with one with '-' it is
\* '[untitled] <publisher>, (<date>), pages <pagerange>'.
C9_UntitledTitle ==
    (Called(md_out) /\ InitialMdGiven /\ IsNone(xml_in.title)) =>
        /\ md_out.raised # "TypeError"
        /\ Returned(md_out) =>
              /\ Truthy(md_out.value.title)
              /\ ~IsNone(xml_in.pagerange) =>
                    md_out.value.title =
                        Some(IF DashesAt(xml_in.pagerange[1]) = {}
                             THEN "[untitled] " \o Fmt(xml_in.journaltitle)
                                  \o " (" \o Fmt(xml_in.pubdate) \o "), page "
                                  \o Str(xml_in.pagerange[1])
                             ELSE "[untitled] " \o Fmt(xml_in.journaltitle)
                                  \o ", (" \o Fmt(xml_in.pubdate)
                                  \o "), pages " \o Str(xml_in.pagerange[1]))

\* --------------------------------------------- modify_ia_metadata's claims
\* the overlay keys whose value differs from the remote one
DiffKeys == {k \in MetaKeys : ~IsNone(overlay[k]) /\ overlay[k] # remote[k]}
\* the paths of a key and of the elements of its list value
PathsOf(k) ==
    {"/" \o k} \cup {"/" \o k \o "/" \o IntStr(n) : n \in 0..MaxListLen}
\* the operation of a flattened patch entry, and its path
OpOf(entry) == CHOOSE op \in DOMAIN entry : op # "value"
PathOf(entry) == entry[OpOf(entry)][1].s
IsList(o) == ~IsNone(o) /\ o[1].t = "list"

\* C5: modify_ia_metadata sends one read request; when no overlay key
\* differs from the remote metadata it sends nothing else and returns the
\* 'no changes' text; otherwise it sends one patch request, which has, for
\* every overlay key that differs, one operation on the key's path with the
\* overlay's value, a replace if the remote has the key and an add if not
\* (for a key that is a list on both sides, operations on the paths of the
\* key or of its elements), each as {<op>: <path>, value: <value>}, and no
\* operation on any other key.
C5_OnePatchPerDifferingKey ==
    Called(modified) =>
        /\ Len(requests) >= 1
        /\ requests[1] = GetRequest
        /\ \A n \in 2..Len(requests) : requests[n].method # "GET"
        /\ IF DiffKeys = {}
           THEN /\ Len(requests) = 1
                /\ Returned(modified)
                /\ modified.value = NoChanges
           ELSE /\ Len(requests) = 2
                /\ requests[2].method = "PATCH"
                /\ Returned(modified)
                /\ LET patch == requests[2].patch
                   IN  /\ \A n \in 1..Len(patch) :
                             /\ DOMAIN patch[n] = {OpOf(patch[n]), "value"}
                             /\ ~IsNone(patch[n]["value"])
                             /\ \E k \in DiffKeys : PathOf(patch[n]) \in PathsOf(k)
                       /\ \A k \in DiffKeys :
                             IF IsList(remote[k]) /\ IsList(overlay[k])
                             THEN \E n \in 1..Len(patch) :
                                      PathOf(patch[n]) \in PathsOf(k)
                             ELSE /\ Cardinality({n \in 1..Len(patch) :
                                         PathOf(patch[n]) \in PathsOf(k)}) = 1
                                  /\ \E n \in 1..Len(patch) :
                                        /\ PathOf(patch[n]) = "/" \o k
                                        /\ OpOf(patch[n]) =
                                               (IF IsNone(remote[k])
                                                THEN "add" ELSE "replace")
                                        /\ patch[n]["value"] = overlay[k]


====
